---- MODULE Spec2Model ----
(***************************************************************************)
(* A model of deploy_mxs_vm.py (class Stage1): one sequential process that *)
(* prompts for an ISO, installs packages, optionally builds a composite    *)
(* ISO, configures libvirt/QEMU on the host and invokes the VM installer.  *)
(*                                                                         *)
(* The process is a program counter (pc) walking through the methods in    *)
(* the order main() calls them.  Every external command, prompt answer and *)
(* file-system probe is an input chosen by \E at the step that uses it.    *)
(* sys.exit (raised by fail) and an uncaught exception both end the        *)
(* process with exit status 1; SystemExit is not an Exception, so no       *)
(* "except Exception" handler of the source catches it, but a "finally"    *)
(* block still runs.                                                       *)
(*                                                                         *)
(* Config file text is a sequence of tokens.  "#" is the comment           *)
(* character; every other token stands for one directive text of the       *)
(* source, which contains no "#" and has no proper prefix equal to a       *)
(* suffix, so that substring search and replacement on tokens agree with   *)
(* Python's "in" and str.replace on the characters.                        *)
(***************************************************************************)
EXTENDS Integers, Sequences, FiniteSets, TLC

---------------------------------------------------------------------------
(* Bounds of the model *)

\* longest initial config file text (in tokens) explored by SpecHost
MaxLen == 3
\* most invalid menu entries typed before a valid one
MaxInvalid == 2
\* largest resource quantity explored by SpecVm
MaxRes == 3
\* most runs of the host-configuration stage against the same file system
MaxInvocations == 2
\* largest threads-per-core and socket count reported by lscpu
MaxTopo == 2

---------------------------------------------------------------------------
(* Program constants *)

LIBVIRT_CONFIG_PATH == "/etc/libvirt/libvirtd.conf"
QEMU_CONFIG_PATH == "/etc/libvirt/qemu.conf"
ConfigPaths == {LIBVIRT_CONFIG_PATH, QEMU_CONFIG_PATH}

\* backup_path = f"{file_path}.backup"
backup_path(file_path) ==
    IF file_path = LIBVIRT_CONFIG_PATH THEN "/etc/libvirt/libvirtd.conf.backup"
                                       ELSE "/etc/libvirt/qemu.conf.backup"

AllPaths == ConfigPaths \cup {backup_path(f) : f \in ConfigPaths}

\* directive texts, one token each
TokHash == "#"
TokSockGroup == "unix_sock_group = \"libvirt\""
TokSockPerms == "unix_sock_rw_perms = \"0770\""
TokLogFilters == "log_filters=\"3:qemu 1:libvirt\""
TokLogOutputs == "log_outputs=\"2:file:/var/log/libvirt/libvirtd.log\""
TokUserRoot == "user = \"root\""
TokUserOther == "user = \"alice\""
TokGroupRoot == "group = \"root\""
TokGroupLibvirt == "group = \"libvirt\""

\* additional_settings.strip().split('\n')
additional_settings == <<TokLogFilters, TokLogOutputs>>

\* the line f"user = \"{user}\"" for the invoking user
UserLine(u) == IF u = "root" THEN TokUserRoot ELSE TokUserOther

\* the (search_string, replace_string) pairs of the modify_config calls, in order
ConfigEdits(f, u) ==
    IF f = LIBVIRT_CONFIG_PATH
    THEN << [search |-> <<TokHash, TokSockGroup>>, replace |-> <<TokSockGroup>>],
            [search |-> <<TokHash, TokSockPerms>>, replace |-> <<TokSockPerms>>] >>
    ELSE << [search |-> <<TokHash, TokUserRoot>>, replace |-> <<UserLine(u)>>],
            [search |-> <<TokHash, TokGroupRoot>>, replace |-> <<TokGroupLibvirt>>] >>

\* the temporary directories that serve as mount points
virtio_mount_dir == "virtio_mount_dir"
windows_mount_dir == "windows_mount_dir"
wimtemp_dir == "wimtemp_dir"

CustomIso == "CustomWin10.iso"

---------------------------------------------------------------------------
(* Pure helpers: Python string operations on token sequences *)

\* sub in s
Contains(s, sub) ==
    \E i \in 1..(Len(s) - Len(sub) + 1) : SubSeq(s, i, i + Len(sub) - 1) = sub

\* s.replace(old, new): leftmost non-overlapping occurrences, old non-empty
RECURSIVE Replace(_, _, _)
Replace(s, old, new) ==
    IF Len(s) < Len(old) THEN s
    ELSE IF SubSeq(s, 1, Len(old)) = old
         THEN new \o Replace(SubSeq(s, Len(old) + 1, Len(s)), old, new)
         ELSE <<Head(s)>> \o Replace(Tail(s), old, new)

\* os.path.expanduser
expanduser(p) == IF p = "~/win.iso" THEN "/home/alice/win.iso" ELSE p

BoundedSeq(S, n) == UNION {[1..k -> S] : k \in 0..n}

---------------------------------------------------------------------------
VARIABLES
    pc,          \* position of the process in the main sequence
    exitStatus,  \* -1 while running, then the exit status 0 / 1 of the ended process
    failedAt,    \* where fail() was called in this run, "" while it was not
    log,         \* what the current stage did so far: commands, file accesses, warnings
    done,        \* the stages of main() that have completed in this run
    input,       \* the answers collected by prompt_for_iso_choice
    fs,          \* the root-owned config files and their backups
    user,        \* getpass.getuser()
    mounts,      \* mount points of this process that are currently mounted
    iso,         \* locals of the composite-ISO build (create_custom_iso)
    vm,          \* locals of create_vm
    invocation,  \* how many times the host-configuration stage has been entered
    patched      \* history: the modify_config calls that replaced their search string

vars == <<pc, exitStatus, failedAt, log, done, input, fs, user, mounts, iso, vm,
          invocation, patched>>

\* one log entry: an external command, a direct file access or a warning
Entry(op, arg, ok) == [op |-> op, arg |-> arg, ok |-> ok]

---------------------------------------------------------------------------
(* Ways a step ends *)

\* a variant of fail that ends the process with sys.exit(0)
fail_exit_zero ==
    /\ failedAt' = pc
    /\ exitStatus' = 0
    /\ pc' = "exited"

\* fail(): logging.error, then sys.exit(1)
fail ==
    /\ failedAt' = pc
    /\ exitStatus' = 1
    /\ pc' = "exited"

\* an exception that reaches the top of the script: traceback, exit status 1
uncaught ==
    /\ exitStatus' = 1
    /\ pc' = "exited"
    /\ UNCHANGED failedAt

\* the step returns and the process continues at position p
goto(p) ==
    /\ pc' = p
    /\ UNCHANGED <<exitStatus, failedAt>>

\* a stage of main() has returned: its log is closed
StageDone(stage) ==
    /\ done' = done \cup {stage}
    /\ log' = <<>>

---------------------------------------------------------------------------
(* Input stage: prompt_for_iso_choice *)

MenuEntries == {"1", "2", "3", "4", ""}
PathEntries == {"/iso/win.iso", "~/win.iso"}

\* a variant of the menu loop that takes whatever was typed as the choice
prompt_for_iso_choice_accepts_any ==
    /\ pc = "prompt_for_iso_choice"
    /\ \E choice \in MenuEntries :
         /\ input' = [input EXCEPT !.choice = choice]
         /\ IF choice \in {"1", "2"}
            THEN goto("prompt_iso_path") /\ UNCHANGED <<done, log>>
            ELSE goto("install_packages") /\ StageDone("input")
    /\ UNCHANGED <<fs, user, mounts, iso, vm, invocation, patched>>

\* the "while True" loop around input("Select an option: ")
prompt_for_iso_choice ==
    /\ pc = "prompt_for_iso_choice"
    /\ \E choice \in MenuEntries :
         IF choice \notin {"1", "2", "3"}
         THEN /\ input.invalid < MaxInvalid
              /\ input' = [input EXCEPT !.invalid = @ + 1]
              /\ UNCHANGED <<pc, exitStatus, failedAt, done, log>>
         ELSE /\ input' = [input EXCEPT !.choice = choice]
              /\ IF choice = "3"
                 THEN goto("install_packages") /\ StageDone("input")
                 ELSE goto("prompt_iso_path") /\ UNCHANGED <<done, log>>
    /\ UNCHANGED <<fs, user, mounts, iso, vm, invocation, patched>>

\* choice in ["1", "2"]: the path prompt, expanduser and the isfile check
prompt_iso_path ==
    /\ pc = "prompt_iso_path"
    /\ \E entered \in PathEntries, isfile \in BOOLEAN :
         /\ input' = [input EXCEPT !.iso_ref = expanduser(entered)]
         /\ IF ~isfile
            THEN fail /\ UNCHANGED <<done, log>>
            ELSE goto("install_packages") /\ StageDone("input")
    /\ UNCHANGED <<fs, user, mounts, iso, vm, invocation, patched>>

---------------------------------------------------------------------------
(* Package stage: install_packages *)

install_packages ==
    /\ pc = "install_packages"
    /\ \E all_installed, update_ok, install_ok \in BOOLEAN :
         IF all_installed
         THEN goto("handle_choice") /\ StageDone("packages")
         ELSE IF ~update_ok
              THEN /\ uncaught
                   /\ log' = Append(log, Entry("apt update", "", FALSE))
                   /\ UNCHANGED done
              ELSE IF ~install_ok
                   THEN /\ uncaught
                        /\ log' = log \o <<Entry("apt update", "", TRUE),
                                           Entry("apt install", "", FALSE)>>
                        /\ UNCHANGED done
                   ELSE goto("handle_choice") /\ StageDone("packages")
    /\ UNCHANGED <<input, fs, user, mounts, iso, vm, invocation, patched>>

---------------------------------------------------------------------------
(* Image-preparation stage: the branch of main() on user_choice *)

\* a variant of the image stage that hands on the composite ISO whatever the choice
ImageReady_always_custom(path) ==
    /\ iso' = [iso EXCEPT !.final_win_iso_path = CustomIso]
    /\ goto("add_user_to_groups")
    /\ StageDone("image")

\* the image stage has produced the installer path
ImageReady(path) ==
    /\ iso' = [iso EXCEPT !.final_win_iso_path = path]
    /\ goto("add_user_to_groups")
    /\ StageDone("image")

\* main(): dispatch on user_choice; choice "1" is handle_user_provided_iso
handle_choice ==
    /\ pc = "handle_choice"
    /\ CASE input.choice = "1" -> ImageReady(input.iso_ref)
         [] input.choice = "2" ->
              goto("cleanup_temp_dirs") /\ UNCHANGED <<iso, done, log>>
         [] input.choice = "3" ->
              goto("download_mido") /\ UNCHANGED <<iso, done, log>>
         [] OTHER -> fail /\ UNCHANGED <<iso, done, log>>
    /\ UNCHANGED <<input, fs, user, mounts, vm, invocation, patched>>

\* a variant of unmount without the is_mounted test: umount is run on any path
unmount_unchecked(mount_point, outcome) ==
    IF outcome = "nonzero"
    THEN [mounts |-> mounts, failed |-> TRUE,
          entry |-> Entry("umount", mount_point, FALSE)]
    ELSE [mounts |-> mounts \ {mount_point}, failed |-> (outcome = "nonempty"),
          entry |-> Entry("umount", mount_point, TRUE)]

\* unmount(mount_point) given the umount command's outcome
\*   "ok": exit 0, directory empty afterwards; "nonzero": the command failed;
\*   "nonempty": exit 0 but the directory still lists entries
UmountOutcomes == {"ok", "nonzero", "nonempty"}
unmount(mount_point, outcome) ==
    IF mount_point \notin mounts
    THEN [mounts |-> mounts, failed |-> FALSE,
          entry |-> Entry("warn: not mounted", mount_point, TRUE)]
    ELSE IF outcome = "nonzero"
         THEN [mounts |-> mounts, failed |-> TRUE,
               entry |-> Entry("umount", mount_point, FALSE)]
         ELSE [mounts |-> mounts \ {mount_point}, failed |-> (outcome = "nonempty"),
               entry |-> Entry("umount", mount_point, TRUE)]

\* create_iso_with_virtio_from_user_iso: cleanup_temp_dirs unmounts every temporary
\* directory that is mounted, one per step, then creates fresh directories
cleanup_temp_dirs ==
    /\ pc = "cleanup_temp_dirs"
    /\ \E outcome \in UmountOutcomes :
         LET mounted == mounts \cap {virtio_mount_dir, windows_mount_dir} IN
         IF mounted = {}
         THEN /\ mounts' = {}
              /\ goto("get_redirected_url")
              /\ UNCHANGED log
         ELSE LET r == unmount(CHOOSE m \in mounted : TRUE, outcome) IN
              /\ mounts' = r.mounts
              /\ log' = Append(log, r.entry)
              /\ IF r.failed THEN fail ELSE goto("cleanup_temp_dirs")
    /\ UNCHANGED <<done, input, fs, user, iso, vm, invocation, patched>>

\* handle_downloaded_iso: fetch Mido.sh and chmod it
download_mido ==
    /\ pc = "download_mido"
    /\ \E ok \in BOOLEAN :
         /\ log' = Append(log, Entry("urlretrieve", "Mido.sh", ok))
         /\ IF ok THEN goto("run_mido") ELSE fail
    /\ UNCHANGED <<done, input, fs, user, mounts, iso, vm, invocation, patched>>

\* handle_downloaded_iso: run ./Mido.sh win10x64 and check that win10x64.iso exists
run_mido ==
    /\ pc = "run_mido"
    /\ \E ok, isfile \in BOOLEAN :
         /\ log' = Append(log, Entry("Mido.sh", "win10x64", ok))
         /\ IF ok /\ isfile
            THEN /\ input' = [input EXCEPT !.iso_ref = "win10x64.iso"]
                 /\ goto("get_redirected_url")
            ELSE fail /\ UNCHANGED input
    /\ UNCHANGED <<done, fs, user, mounts, iso, vm, invocation, patched>>

\* get_redirected_url: curl -sIL; any exception is fatal
get_redirected_url ==
    /\ pc = "get_redirected_url"
    /\ \E ok \in BOOLEAN :
         /\ log' = Append(log, Entry("curl", "virtio-win.iso", ok))
         /\ IF ok THEN goto("download_virtio") ELSE fail
    /\ UNCHANGED <<done, input, fs, user, mounts, iso, vm, invocation, patched>>

\* download_file(actual_virtio_url, virtio_iso): a download that raises, or that
\* leaves no file behind, is fatal
download_file ==
    /\ pc = "download_virtio"
    /\ \E ok \in BOOLEAN :
         /\ log' = Append(log, Entry("urlretrieve", "virtio-win.iso", ok))
         /\ IF ok
            THEN /\ iso' = [iso EXCEPT !.virtio_iso = "virtio-win.iso"]
                 /\ goto("prepare_directories")
            ELSE fail /\ UNCHANGED iso
    /\ UNCHANGED <<done, input, fs, user, mounts, vm, invocation, patched>>

---------------------------------------------------------------------------
(* Composite ISO builder: create_custom_iso and the methods it calls *)

IsoInit ==
    [mounted_isos |-> <<>>, raised |-> FALSE, fin |-> 1, image_index |-> 1,
     drivers_dir |-> "empty", windows_dir |-> "empty", boot_wim |-> FALSE,
     wim |-> [i \in {1, 2} |-> [mounted |-> FALSE, copied |-> "empty",
                                committed |-> FALSE]],
     mastered |-> FALSE, virtio_iso |-> "", final_win_iso_path |-> ""]

mount_dir(which) == IF which = "virtio" THEN virtio_mount_dir ELSE windows_mount_dir

\* fail() inside the try of create_custom_iso: SystemExit passes every
\* "except Exception"; an Exception is turned into fail() by one of them.  Either
\* way the finally block of create_custom_iso runs before the process ends.
cci_fail(rec) ==
    /\ iso' = [rec EXCEPT !.raised = TRUE, !.fin = 1]
    /\ failedAt' = pc
    /\ pc' = "finally"
    /\ UNCHANGED exitStatus

\* copy_tree(src, dest): what dest holds afterwards and whether an exception
\* escapes.  "ok": copytree succeeded; "logged": FileExistsError, PermissionError
\* or shutil.Error, logged and swallowed; "raised": another exception, whose
\* args[0] is not a list of triples, so the handler itself raises TypeError
CopyOutcomes == {"ok", "logged", "raised"}
copy_tree(src, outcome) ==
    IF src = "empty" THEN [dest |-> "empty", raised |-> FALSE]
    ELSE IF outcome = "ok" THEN [dest |-> src, raised |-> FALSE]
    ELSE [dest |-> "partial", raised |-> (outcome = "raised")]

\* mounted_isos = [] and prepare_directories
prepare_directories_for_custom_iso ==
    /\ pc = "prepare_directories"
    /\ iso' = [IsoInit EXCEPT !.virtio_iso = iso.virtio_iso]
    /\ goto("mount_virtio")
    /\ UNCHANGED <<log, done, input, fs, user, mounts, vm, invocation, patched>>

\* mount_iso: iso_path.exists(), for the downloaded VirtIO ISO and for the
\* Windows ISO whose path the input stage or Mido.sh has checked
iso_path_exists(which) ==
    IF which = "virtio" THEN iso.virtio_iso # "" ELSE input.iso_ref # ""

\* mount_iso, called by copy_virtio_drivers and copy_windows_files: a missing
\* ISO is logged and the method returns; a failed mount and a mounted directory
\* that lists nothing are fatal
MountOutcomes == {"ok", "nonzero", "empty"}
mount_iso(which) ==
    /\ pc = IF which = "virtio" THEN "mount_virtio" ELSE "mount_windows"
    /\ \E outcome \in MountOutcomes :
         IF ~iso_path_exists(which)
         THEN /\ log' = Append(log, Entry("error: ISO path does not exist", which, TRUE))
              /\ goto(IF which = "virtio" THEN "copy_virtio" ELSE "copy_windows")
              /\ UNCHANGED <<mounts, iso>>
         ELSE /\ log' = Append(log, Entry("mount", mount_dir(which), outcome # "nonzero"))
              /\ mounts' = IF outcome = "nonzero" THEN mounts
                           ELSE mounts \cup {mount_dir(which)}
              /\ IF outcome = "ok"
                 THEN /\ goto(IF which = "virtio" THEN "copy_virtio" ELSE "copy_windows")
                      /\ UNCHANGED iso
                 ELSE cci_fail(iso)
    /\ UNCHANGED <<done, input, fs, user, vm, invocation, patched>>

\* copy_tree(mount point, scratch directory) in copy_virtio_drivers / copy_windows_files
copy_iso_tree(which) ==
    /\ pc = IF which = "virtio" THEN "copy_virtio" ELSE "copy_windows"
    /\ \E outcome \in CopyOutcomes, has_boot_wim \in BOOLEAN :
         LET src == IF mount_dir(which) \in mounts THEN "full" ELSE "empty"
             r == copy_tree(src, outcome)
             rec == IF which = "virtio"
                    THEN [iso EXCEPT !.drivers_dir = r.dest]
                    ELSE [iso EXCEPT !.windows_dir = r.dest,
                                     !.boot_wim = has_boot_wim /\ r.dest # "empty"]
         IN IF r.raised
            THEN cci_fail(rec)
            ELSE /\ iso' = rec
                 /\ goto(IF which = "virtio" THEN "unmount_virtio" ELSE "unmount_windows")
    /\ UNCHANGED <<log, done, input, fs, user, mounts, vm, invocation, patched>>

\* unmount(mount point) in copy_virtio_drivers / copy_windows_files, and the
\* mounted_isos.append that follows the return of either
unmount_iso(which) ==
    /\ pc = IF which = "virtio" THEN "unmount_virtio" ELSE "unmount_windows"
    /\ \E outcome \in UmountOutcomes :
         LET r == unmount(mount_dir(which), outcome) IN
         /\ mounts' = r.mounts
         /\ log' = Append(log, r.entry)
         /\ IF r.failed
            THEN cci_fail(iso)
            ELSE /\ iso' = [iso EXCEPT !.mounted_isos = Append(@, mount_dir(which))]
                 /\ goto(IF which = "virtio" THEN "mount_windows" ELSE "mount_wim")
    /\ UNCHANGED <<done, input, fs, user, vm, invocation, patched>>

\* mount_wim(boot.wim, image_index): a missing file and a failed wimmountrw are
\* both logged, and the method returns
mount_wim ==
    /\ pc = "mount_wim"
    /\ \E ok \in BOOLEAN :
         IF ~iso.boot_wim
         THEN /\ log' = Append(log, Entry("error: WIM file does not exist", "boot.wim", TRUE))
              /\ UNCHANGED <<mounts, iso>>
         ELSE /\ log' = Append(log, Entry("wimmountrw", wimtemp_dir, ok))
              /\ mounts' = IF ok THEN mounts \cup {wimtemp_dir} ELSE mounts
              /\ iso' = [iso EXCEPT !.wim[iso.image_index].mounted = ok]
    /\ goto("copy_wim")
    /\ UNCHANGED <<done, input, fs, user, vm, invocation, patched>>

\* copy_tree(drivers_dir, wimtemp_dir) in add_drivers_to_windows_boot_images
copy_wim ==
    /\ pc = "copy_wim"
    /\ \E outcome \in CopyOutcomes :
         LET r == copy_tree(iso.drivers_dir, outcome)
             rec == [iso EXCEPT !.wim[iso.image_index].copied = r.dest]
         IN IF r.raised
            THEN cci_fail(rec)
            ELSE iso' = rec /\ goto("unmount_wim")
    /\ UNCHANGED <<log, done, input, fs, user, mounts, vm, invocation, patched>>

\* unmount_wim: wimunmount --commit through run_subprocess; it fails when no
\* image is mounted on wimtemp_dir.  Then the next index or generate_custom_iso
unmount_wim ==
    /\ pc = "unmount_wim"
    /\ \E ok \in BOOLEAN :
         LET committed == ok /\ wimtemp_dir \in mounts IN
         /\ log' = Append(log, Entry("wimunmount", wimtemp_dir, committed))
         /\ IF committed
            THEN /\ mounts' = mounts \ {wimtemp_dir}
                 /\ iso' = [iso EXCEPT !.wim[iso.image_index].committed = TRUE,
                                       !.image_index = IF @ = 1 THEN 2 ELSE @]
                 /\ goto(IF iso.image_index = 1 THEN "mount_wim"
                                                ELSE "generate_custom_iso")
            ELSE /\ cci_fail(iso)
                 /\ UNCHANGED mounts
    /\ UNCHANGED <<done, input, fs, user, vm, invocation, patched>>

\* generate_custom_iso: mkisofs through run_subprocess
generate_custom_iso ==
    /\ pc = "generate_custom_iso"
    /\ \E ok \in BOOLEAN :
         /\ log' = Append(log, Entry("mkisofs", CustomIso, ok))
         /\ IF ok
            THEN /\ iso' = [iso EXCEPT !.mastered = TRUE, !.fin = 1]
                 /\ goto("finally")
            ELSE cci_fail([iso EXCEPT !.mastered = TRUE])
    /\ UNCHANGED <<done, input, fs, user, mounts, vm, invocation, patched>>

\* the finally block of create_custom_iso: unmount(iso) for iso in mounted_isos,
\* one per step; then the pending SystemExit ends the process, or the method
\* returns the path to its caller and main() goes on
create_custom_iso_finally ==
    /\ pc = "finally"
    /\ \E outcome \in UmountOutcomes :
         IF iso.fin > Len(iso.mounted_isos)
         THEN /\ IF iso.raised
                 THEN /\ pc' = "exited"
                      /\ exitStatus' = 1
                      /\ UNCHANGED <<failedAt, iso, log, done>>
                 ELSE ImageReady(CustomIso)
              /\ UNCHANGED mounts
         ELSE LET r == unmount(iso.mounted_isos[iso.fin], outcome) IN
              /\ mounts' = r.mounts
              /\ log' = Append(log, r.entry)
              /\ iso' = [iso EXCEPT !.fin = @ + 1]
              /\ IF r.failed THEN fail ELSE goto("finally")
              /\ UNCHANGED done
    /\ UNCHANGED <<input, fs, user, vm, invocation, patched>>

---------------------------------------------------------------------------
(* Host-configuration stage: setup_libvirt and the methods it calls *)

HostPc(f, step) ==
    IF f = LIBVIRT_CONFIG_PATH
    THEN CASE step = "isfile" -> "libvirt_isfile"
           [] step = "backup" -> "libvirt_backup"
           [] step = "modify_1" -> "libvirt_modify_1"
           [] step = "modify_2" -> "libvirt_modify_2"
           [] OTHER -> "libvirt_additional"
    ELSE CASE step = "isfile" -> "qemu_isfile"
           [] step = "backup" -> "qemu_backup"
           [] step = "modify_1" -> "qemu_modify_1"
           [] step = "modify_2" -> "qemu_modify_2"
           [] OTHER -> "systemctl_restart"

\* add_user_to_libvirt_and_kvm_groups: usermod through run_subprocess, any
\* exception turned into fail()
add_user_to_libvirt_and_kvm_groups ==
    /\ pc = "add_user_to_groups"
    /\ invocation' = invocation + 1
    /\ \E ok \in BOOLEAN :
         /\ log' = Append(log, Entry("usermod", user, ok))
         /\ IF ok THEN goto("libvirt_isfile") ELSE fail
    /\ UNCHANGED <<done, input, fs, user, mounts, iso, vm, patched>>

\* modify_and_backup_*_config: if not os.path.isfile(config_path): fail
config_isfile(f) ==
    /\ pc = HostPc(f, "isfile")
    /\ IF fs[f].exists THEN goto(HostPc(f, "backup")) ELSE fail
    /\ UNCHANGED <<log, done, input, fs, user, mounts, iso, vm, invocation, patched>>

\* a variant of the gate that copies whether or not a backup exists
backup_always(f) == TRUE

\* the gate of the backup: if not os.path.isfile(backup_path)
backup_needed(f) == ~fs[backup_path(f)].exists

\* backup_file(file_path): sudo cp without check=True, so its exit status is
\* not looked at; "Backup created" is logged either way
backup_file(file_path, cp_ok) ==
    IF fs[file_path].exists
    THEN [fs |-> IF cp_ok THEN [fs EXCEPT ![backup_path(file_path)] = fs[file_path]]
                          ELSE fs,
          entry |-> Entry("cp", file_path, cp_ok)]
    ELSE [fs |-> fs, entry |-> Entry("warn: skipping backup", file_path, TRUE)]

\* modify_and_backup_*_config: the backup step
config_backup(f) ==
    /\ pc = HostPc(f, "backup")
    /\ \E cp_ok \in BOOLEAN :
         IF backup_needed(f)
         THEN LET r == backup_file(f, cp_ok) IN
              /\ fs' = r.fs
              /\ log' = Append(log, r.entry)
         ELSE UNCHANGED <<fs, log>>
    /\ goto(HostPc(f, "modify_1"))
    /\ UNCHANGED <<done, input, user, mounts, iso, vm, invocation, patched>>

\* a variant of modify_config in which a missing search string is fatal
modify_config_missing_is_fatal(file_path, search_string, replace_string, cat_ok, tee_ok) ==
    IF ~cat_ok
    THEN [fs |-> fs, failed |-> TRUE,
          entries |-> <<Entry("sudo cat", file_path, FALSE)>>]
    ELSE LET filedata == fs[file_path].data IN
         IF Contains(filedata, search_string)
         THEN [fs |-> IF tee_ok
                      THEN [fs EXCEPT ![file_path].data =
                                Replace(filedata, search_string, replace_string)]
                      ELSE fs,
               failed |-> ~tee_ok,
               entries |-> <<Entry("sudo cat", file_path, TRUE),
                             Entry("sudo tee", file_path, tee_ok)>>]
         ELSE [fs |-> fs, failed |-> TRUE,
               entries |-> <<Entry("sudo cat", file_path, TRUE),
                             Entry("warn: search string not found", file_path, TRUE)>>]

\* a variant of modify_config without the "if search_string in filedata" test:
\* the text, replaced or not, is written back every time
modify_config_always_writes(file_path, search_string, replace_string, cat_ok, tee_ok) ==
    IF ~cat_ok
    THEN [fs |-> fs, failed |-> TRUE,
          entries |-> <<Entry("sudo cat", file_path, FALSE)>>]
    ELSE [fs |-> IF tee_ok
                 THEN [fs EXCEPT ![file_path].data =
                           Replace(@, search_string, replace_string)]
                 ELSE fs,
          failed |-> ~tee_ok,
          entries |-> <<Entry("sudo cat", file_path, TRUE),
                        Entry("sudo tee", file_path, tee_ok)>>]

\* modify_config(file_path, search_string, replace_string) given the outcomes of
\* sudo cat and sudo tee: the file system afterwards, what was logged, and
\* whether fail() was called
modify_config(file_path, search_string, replace_string, cat_ok, tee_ok) ==
    IF ~cat_ok
    THEN [fs |-> fs, failed |-> TRUE,
          entries |-> <<Entry("sudo cat", file_path, FALSE)>>]
    ELSE LET filedata == fs[file_path].data IN
         IF Contains(filedata, search_string)
         THEN [fs |-> IF tee_ok
                      THEN [fs EXCEPT ![file_path].data =
                                Replace(filedata, search_string, replace_string)]
                      ELSE fs,
               failed |-> ~tee_ok,
               entries |-> <<Entry("sudo cat", file_path, TRUE),
                             Entry("sudo tee", file_path, tee_ok)>>]
         ELSE [fs |-> fs, failed |-> FALSE,
               entries |-> <<Entry("sudo cat", file_path, TRUE),
                             Entry("warn: search string not found", file_path, TRUE)>>]

\* the text holds the search string right after a further "#"
doubled(filedata, search_string) == Contains(filedata, <<TokHash>> \o search_string)

\* the k-th modify_config call of modify_and_backup_*_config
config_modify(f, k) ==
    /\ pc = HostPc(f, IF k = 1 THEN "modify_1" ELSE "modify_2")
    /\ \E cat_ok, tee_ok \in BOOLEAN :
         LET e == ConfigEdits(f, user)[k]
             r == modify_config(f, e.search, e.replace, cat_ok, tee_ok)
         IN /\ fs' = r.fs
            /\ log' = log \o r.entries
            /\ patched' = IF r.fs # fs
                           THEN patched \cup {<<f, k, doubled(fs[f].data, e.search)>>}
                           ELSE patched
            /\ IF r.failed THEN fail
               ELSE goto(HostPc(f, IF k = 1 THEN "modify_2" ELSE "after"))
    /\ UNCHANGED <<done, input, user, mounts, iso, vm, invocation>>

\* additional_settings_exist: every line of additional_settings is in the text
additional_settings_exist(file_contents) ==
    \A i \in 1..Len(additional_settings) :
        Contains(file_contents, <<additional_settings[i]>>)

\* modify_and_backup_libvirt_config, after the two modify_config calls: the file
\* is read with open(), and the whole of additional_settings is appended with
\* sudo tee -a (check=True) unless every line of it is already in the text
libvirt_additional_settings ==
    /\ pc = "libvirt_additional"
    /\ \E read_ok, tee_ok \in BOOLEAN :
         LET f == LIBVIRT_CONFIG_PATH
             opened == Entry("open", f, read_ok)
         IN IF ~read_ok
            THEN /\ log' = Append(log, opened)
                 /\ fail
                 /\ UNCHANGED fs
            ELSE IF additional_settings_exist(fs[f].data)
                 THEN /\ log' = Append(log, opened)
                      /\ goto("systemctl_enable")
                      /\ UNCHANGED fs
                 ELSE /\ log' = log \o <<opened, Entry("sudo tee -a", f, tee_ok)>>
                      /\ IF tee_ok
                         THEN /\ fs' = [fs EXCEPT ![f].data = @ \o additional_settings]
                              /\ goto("systemctl_enable")
                         ELSE fail /\ UNCHANGED fs
    /\ UNCHANGED <<done, input, user, mounts, iso, vm, invocation, patched>>

\* a variant of setup_libvirt that restarts the daemon right after starting it
ServiceNext_restart_after_start(action) ==
    CASE action = "enable" -> "systemctl_start"
      [] action = "start" -> "systemctl_restart"
      [] OTHER -> "net_autostart"

\* manage_libvirtd_service: systemctl <action> libvirtd through run_subprocess;
\* its exception is caught nowhere
ServiceNext(action) ==
    CASE action = "enable" -> "systemctl_start"
      [] action = "start" -> "qemu_isfile"
      [] OTHER -> "net_autostart"
manage_libvirtd_service(action) ==
    /\ pc = CASE action = "enable" -> "systemctl_enable"
              [] action = "start" -> "systemctl_start"
              [] OTHER -> "systemctl_restart"
    /\ \E ok \in BOOLEAN :
         /\ log' = Append(log, Entry("systemctl", action, ok))
         /\ IF ok THEN goto(ServiceNext(action)) ELSE uncaught
    /\ UNCHANGED <<done, input, fs, user, mounts, iso, vm, invocation, patched>>

\* enable_virsh_default_network, the last step of setup_libvirt
enable_virsh_default_network ==
    /\ pc = "net_autostart"
    /\ \E ok \in BOOLEAN :
         IF ok
         THEN goto("get_uefi_path") /\ StageDone("host")
         ELSE /\ log' = Append(log, Entry("virsh net-autostart", "default", FALSE))
              /\ uncaught
              /\ UNCHANGED done
    /\ UNCHANGED <<input, fs, user, mounts, iso, vm, invocation, patched>>

---------------------------------------------------------------------------
(* VM-creation stage: create_vm and the methods it calls *)

VmInit ==
    [DISTRO_NAME |-> "", UEFI_PATH |-> "", firmware |-> "unchecked",
     threads_per_core |-> 1, sockets |-> 1,
     available |-> <<0, 0, 0>>, auto_allocate |-> "", allocated |-> <<0, 0, 0>>,
     virt_install |-> <<>>]

OVMF_CODE == "/usr/share/OVMF/OVMF_CODE_4M.fd"
Distros == {"ubuntu", "pop", "debian", "linuxmint", "fedora"}
SupportedDistros == {"ubuntu", "pop", "debian", "linuxmint"}

\* get_uefi_path: the ID= line of /etc/os-release; no such line makes re.search
\* return None, and .group raises AttributeError, caught nowhere
get_uefi_path ==
    /\ pc = "get_uefi_path"
    /\ \E id_line \in BOOLEAN, DISTRO_NAME \in Distros :
         IF ~id_line
         THEN uncaught /\ UNCHANGED vm
         ELSE IF DISTRO_NAME \in SupportedDistros
              THEN /\ vm' = [vm EXCEPT !.DISTRO_NAME = DISTRO_NAME,
                                       !.UEFI_PATH = OVMF_CODE]
                   /\ goto("uefi_isfile")
              ELSE /\ vm' = [vm EXCEPT !.DISTRO_NAME = DISTRO_NAME]
                   /\ fail
    /\ UNCHANGED <<log, done, input, fs, user, mounts, iso, invocation, patched>>

\* a variant of create_vm that goes on whether or not the firmware file exists
uefi_isfile_unchecked ==
    /\ pc = "uefi_isfile"
    /\ \E isfile \in BOOLEAN :
         /\ vm' = [vm EXCEPT !.firmware = IF isfile THEN "found" ELSE "absent"]
         /\ goto("get_cpu_topology")
    /\ UNCHANGED <<log, done, input, fs, user, mounts, iso, invocation, patched>>

\* create_vm: if not os.path.isfile(UEFI_PATH): fail
uefi_isfile ==
    /\ pc = "uefi_isfile"
    /\ \E isfile \in BOOLEAN :
         /\ vm' = [vm EXCEPT !.firmware = IF isfile THEN "found" ELSE "absent"]
         /\ IF isfile THEN goto("get_cpu_topology") ELSE fail
    /\ UNCHANGED <<log, done, input, fs, user, mounts, iso, invocation, patched>>

\* get_cpu_topology: lscpu through check_output; its failure is caught nowhere
get_cpu_topology ==
    /\ pc = "get_cpu_topology"
    /\ \E ok \in BOOLEAN, threads_per_core \in 1..MaxTopo, sockets \in 1..MaxTopo :
         /\ log' = Append(log, Entry("lscpu", "", ok))
         /\ IF ok
            THEN /\ vm' = [vm EXCEPT !.threads_per_core = threads_per_core,
                                     !.sockets = sockets]
                 /\ goto("resource_assessment")
            ELSE uncaught /\ UNCHANGED vm
    /\ UNCHANGED <<done, input, fs, user, mounts, iso, invocation, patched>>

\* resource_assessment: (available_ram_mb, available_cpus, available_disk_gb),
\* one of the triples of Available; any exception is fatal
resource_assessment(Available) ==
    /\ pc = "resource_assessment"
    /\ \E ok \in BOOLEAN, available \in Available :
         IF ok
         THEN /\ vm' = [vm EXCEPT !.available = available]
              /\ goto("auto_or_manual_config")
         ELSE fail /\ UNCHANGED vm
    /\ UNCHANGED <<log, done, input, fs, user, mounts, iso, invocation, patched>>

\* str.lower on the answers the model types
lower(answer) == IF answer = "Y" THEN "y" ELSE answer

\* auto_or_manual_config and the test auto_allocate.lower() == 'y'
auto_or_manual_config ==
    /\ pc = "auto_or_manual_config"
    /\ \E auto_allocate \in {"y", "Y", "n", ""} :
         /\ vm' = [vm EXCEPT !.auto_allocate = auto_allocate]
         /\ goto(IF lower(auto_allocate) = "y" THEN "auto_allocation"
                                               ELSE "manual_allocation")
    /\ UNCHANGED <<log, done, input, fs, user, mounts, iso, invocation, patched>>

\* a variant of auto_allocation that rounds the halves up
half_rounded_up(available) ==
    <<(available[1] + 1) \div 2, (available[2] + 1) \div 2, (available[3] + 1) \div 2>>

\* the result of auto_allocation
half(available) ==
    <<available[1] \div 2, available[2] \div 2, available[3] \div 2>>

auto_allocation ==
    /\ pc = "auto_allocation"
    /\ vm' = [vm EXCEPT !.allocated = half(vm.available)]
    /\ goto("validate_allocation")
    /\ UNCHANGED <<log, done, input, fs, user, mounts, iso, invocation, patched>>

\* the test shared by manual_allocation and validate_allocation
exceeds(allocated, available) ==
    \/ allocated[1] > available[1]
    \/ allocated[2] > available[2]
    \/ allocated[3] > available[3]

\* manual_allocation: three int(input(...)), one of the triples of Typed; text
\* that is no number raises ValueError, which is turned into fail()
manual_allocation(Typed) ==
    /\ pc = "manual_allocation"
    /\ \E numeric \in BOOLEAN, allocated \in Typed :
         IF numeric /\ ~exceeds(allocated, vm.available)
         THEN /\ vm' = [vm EXCEPT !.allocated = allocated]
              /\ goto("validate_allocation")
         ELSE fail /\ UNCHANGED vm
    /\ UNCHANGED <<log, done, input, fs, user, mounts, iso, invocation, patched>>

\* a variant of validate_allocation that forgets the disk
validate_allocation_no_disk(allocated, available) ==
    \/ allocated[1] > available[1]
    \/ allocated[2] > available[2]

\* validate_allocation(allocated..., available...): whether it calls fail()
validate_allocation(allocated, available) ==
    \/ allocated[1] > available[1]
    \/ allocated[2] > available[2]
    \/ allocated[3] > available[3]

\* create_vm: the call of validate_allocation
validate_allocation_step ==
    /\ pc = "validate_allocation"
    /\ IF validate_allocation(vm.allocated, vm.available)
       THEN fail
       ELSE goto("virt_install")
    /\ UNCHANGED <<log, done, input, fs, user, mounts, iso, vm, invocation, patched>>

\* a variant of the command whose core count is rounded up
virt_install_cmd_cores_rounded_up ==
    [ram |-> vm.allocated[1], vcpus |-> vm.allocated[2],
     sockets |-> vm.sockets,
     cores |-> (vm.allocated[2] + vm.threads_per_core * vm.sockets - 1)
                   \div (vm.threads_per_core * vm.sockets),
     threads |-> vm.threads_per_core,
     cdrom |-> iso.final_win_iso_path, disk_size |-> vm.allocated[3],
     uefi |-> vm.UEFI_PATH]

\* the arguments of virt-install that depend on the run
virt_install_cmd ==
    [ram |-> vm.allocated[1], vcpus |-> vm.allocated[2],
     sockets |-> vm.sockets,
     cores |-> (vm.allocated[2] \div vm.threads_per_core) \div vm.sockets,
     threads |-> vm.threads_per_core,
     cdrom |-> iso.final_win_iso_path, disk_size |-> vm.allocated[3],
     uefi |-> vm.UEFI_PATH]

\* create_vm: virt-install through run_subprocess; success is the end of main()
virt_install ==
    /\ pc = "virt_install"
    /\ vm' = [vm EXCEPT !.virt_install = <<virt_install_cmd>>]
    /\ \E ok \in BOOLEAN :
         /\ log' = Append(log, Entry("virt-install", "MyVM", ok))
         /\ IF ok
            THEN /\ pc' = "exited"
                 /\ exitStatus' = 0
                 /\ done' = done \cup {"vm"}
                 /\ UNCHANGED failedAt
            ELSE uncaught /\ UNCHANGED done
    /\ UNCHANGED <<input, fs, user, mounts, iso, invocation, patched>>

---------------------------------------------------------------------------
(* The script is started again against the same file system: a new process,  *)
(* whose earlier stages touch no config file, reaches setup_libvirt.         *)
run_again ==
    /\ pc \in {"exited", "get_uefi_path"}
    /\ invocation < MaxInvocations
    /\ pc' = "add_user_to_groups"
    /\ exitStatus' = -1
    /\ failedAt' = ""
    /\ log' = <<>>
    /\ done' = {"input", "packages", "image"}
    /\ UNCHANGED <<input, fs, user, mounts, iso, vm, invocation, patched>>

---------------------------------------------------------------------------
(* Initial states *)

File(data) == [exists |-> TRUE, data |-> data]
NoFile == [exists |-> FALSE, data |-> <<>>]

\* the text the distribution ships: both directives commented out
Stock(f) ==
    IF f = LIBVIRT_CONFIG_PATH
    THEN <<TokHash, TokSockGroup, TokHash, TokSockPerms>>
    ELSE <<TokHash, TokUserRoot, TokHash, TokGroupRoot>>

Tokens(f) ==
    IF f = LIBVIRT_CONFIG_PATH
    THEN {TokHash, TokSockGroup, TokSockPerms, TokLogFilters, TokLogOutputs}
    ELSE {TokHash, TokUserRoot, TokGroupRoot}

\* a config file with or without a backup made by an earlier run
WithBackup(f, file, backed_up) ==
    (f :> file) @@ (backup_path(f) :> IF backed_up THEN File(Stock(f)) ELSE NoFile)

ProcessStart ==
    /\ exitStatus = -1
    /\ failedAt = ""
    /\ log = <<>>
    /\ mounts = {}
    /\ iso = IsoInit
    /\ patched = {}

\* a fresh run of the script: stock or missing config files
Init ==
    /\ ProcessStart
    /\ pc = "prompt_for_iso_choice"
    /\ vm = VmInit
    /\ done = {}
    /\ input = [choice |-> "", iso_ref |-> "", invalid |-> 0]
    /\ user = "alice"
    /\ invocation = 0
    /\ \E lv, qe \in {"stock", "missing"}, b \in BOOLEAN :
         fs = WithBackup(LIBVIRT_CONFIG_PATH,
                         IF lv = "stock" THEN File(Stock(LIBVIRT_CONFIG_PATH)) ELSE NoFile, b)
              @@ WithBackup(QEMU_CONFIG_PATH,
                            IF qe = "stock" THEN File(Stock(QEMU_CONFIG_PATH)) ELSE NoFile, b)

\* the host-configuration stage is entered with one config file missing or
\* holding any text of at most MaxLen tokens, and the stock text in the other;
\* the invoking user matters to the text of qemu.conf only
InitHost ==
    /\ ProcessStart
    /\ pc = "add_user_to_groups"
    /\ vm = VmInit
    /\ done = {"input", "packages", "image"}
    /\ input = [choice |-> "1", iso_ref |-> "/iso/win.iso", invalid |-> 0]
    /\ invocation = 0
    /\ \E f \in ConfigPaths, b \in BOOLEAN :
         \E file \in {File(data) : data \in BoundedSeq(Tokens(f), MaxLen)} \cup {NoFile} :
            LET g == CHOOSE x \in ConfigPaths : x # f IN
            /\ fs = WithBackup(f, file, b) @@ WithBackup(g, File(Stock(g)), b)
            /\ user \in IF f = QEMU_CONFIG_PATH THEN {"root", "alice"} ELSE {"alice"}

Triples == (0..MaxRes) \X (0..MaxRes) \X (0..MaxRes)

\* create_vm has inspected the host and found any small CPU topology; or
\* validate_allocation is called with any allocation and availability
InitVm ==
    /\ ProcessStart
    /\ done = {"input", "packages", "image", "host"}
    /\ input = [choice |-> "1", iso_ref |-> "/iso/win.iso", invalid |-> 0]
    /\ user = "alice"
    /\ invocation = 1
    /\ fs = WithBackup(LIBVIRT_CONFIG_PATH, File(Stock(LIBVIRT_CONFIG_PATH)), TRUE)
            @@ WithBackup(QEMU_CONFIG_PATH, File(Stock(QEMU_CONFIG_PATH)), TRUE)
    /\ \/ /\ pc = "resource_assessment"
          /\ \E threads_per_core, sockets \in 1..MaxTopo :
               vm = [VmInit EXCEPT !.DISTRO_NAME = "ubuntu", !.UEFI_PATH = OVMF_CODE,
                                   !.firmware = "found",
                                   !.threads_per_core = threads_per_core,
                                   !.sockets = sockets]
       \/ /\ pc = "validate_allocation"
          /\ \E allocated, available \in Triples :
               vm = [VmInit EXCEPT !.DISTRO_NAME = "ubuntu", !.UEFI_PATH = OVMF_CODE,
                                   !.firmware = "found",
                                   !.allocated = allocated, !.available = available]

---------------------------------------------------------------------------
(* Specifications *)

\* what a run of the script in the main specification finds and is told
RunAvailable == {<<8000, 4, 100>>, <<3, 1, 0>>}
RunTyped == {<<4000, 2, 50>>, <<8001, 4, 100>>, <<3, 1, 0>>, <<-1, 1, 0>>}

InputStage == prompt_for_iso_choice \/ prompt_iso_path
PackageStage == install_packages
ImageStage ==
    \/ handle_choice \/ cleanup_temp_dirs \/ download_mido \/ run_mido
    \/ get_redirected_url \/ download_file
    \/ prepare_directories_for_custom_iso
    \/ \E which \in {"virtio", "windows"} :
         mount_iso(which) \/ copy_iso_tree(which) \/ unmount_iso(which)
    \/ mount_wim \/ copy_wim \/ unmount_wim
    \/ generate_custom_iso \/ create_custom_iso_finally
HostStage ==
    \/ add_user_to_libvirt_and_kvm_groups
    \/ \E f \in ConfigPaths :
         config_isfile(f) \/ config_backup(f) \/ \E k \in {1, 2} : config_modify(f, k)
    \/ libvirt_additional_settings
    \/ \E action \in {"enable", "start", "restart"} : manage_libvirtd_service(action)
    \/ enable_virsh_default_network
VmStage(Available, Typed) ==
    \/ get_uefi_path \/ uefi_isfile \/ get_cpu_topology
    \/ resource_assessment(Available) \/ auto_or_manual_config
    \/ auto_allocation \/ manual_allocation(Typed)
    \/ validate_allocation_step \/ virt_install

\* one run of the script, from main() to the end of the process
Next ==
    InputStage \/ PackageStage \/ ImageStage \/ HostStage
    \/ VmStage(RunAvailable, RunTyped)
Spec == Init /\ [][Next]_vars

\* the host-configuration stage, run repeatedly against one file system
NextHost == HostStage \/ run_again
SpecHost == InitHost /\ [][NextHost]_vars

\* the allocation part of create_vm over all small triples
NextVm ==
    \/ resource_assessment(Triples) \/ auto_or_manual_config
    \/ auto_allocation \/ manual_allocation(Triples)
    \/ validate_allocation_step \/ virt_install
SpecVm == InitVm /\ [][NextVm]_vars

---------------------------------------------------------------------------
(* Properties *)

AllStages == {"input", "packages", "image", "host", "vm"}

\* log entries that are no command and no file access
Notes == {"warn: not mounted", "warn: skipping backup", "warn: search string not found",
          "error: ISO path does not exist", "error: WIM file does not exist"}

\* the external commands whose success the flow depends on
DependedCommands ==
    {"cp", "mount", "umount", "wimmountrw", "wimunmount", "mkisofs", "apt update",
     "apt install", "systemctl", "usermod", "sudo cat", "sudo tee", "sudo tee -a",
     "virsh net-autostart", "virt-install"}

\* the process is ending with status 1: it has ended, or SystemExit is on its
\* way out through the finally block of create_custom_iso
Terminating == exitStatus = 1 \/ (pc = "finally" /\ iso.raised)

\* what the step appended to the log of the stage
Appended(i) == i \in (Len(log) + 1)..Len(log')

\* C1: each of the two config files is edited (overwritten or appended to) only
\* when its .backup file exists; after a failed backup copy no edit is applied.
C1_EditOnlyAfterBackup ==
    [][\A f \in ConfigPaths : fs'[f] # fs[f] => fs[backup_path(f)].exists]_vars

\* C2: when the composite-ISO build ends, by returning or by a fatal exit, no
\* ISO loop mount and no WIM mount made by it is still mounted.
C2_NoMountLeftBehind ==
    (pc = "exited" \/ "image" \in done) => mounts = {}

\* C3: the ISO-mastering tool is invoked only after, for boot-image index 1 and
\* index 2, the image was mounted read-write, the whole drivers tree was copied
\* into it and it was unmounted with commit.
C3_MasteringAfterInjection ==
    iso.mastered =>
        \A i \in {1, 2} : /\ iso.wim[i].mounted
                          /\ iso.wim[i].copied = "full"
                          /\ iso.wim[i].committed

\* C4: validate_allocation ends the run with status 1 exactly when some
\* allocated quantity is greater than the available one, so the VM installer is
\* invoked only with an allocation within what is available.
C4_ValidatorGuardsInstaller ==
    LET over == \E d \in 1..3 : vm.allocated[d] > vm.available[d] IN
    /\ failedAt = "validate_allocation" => exitStatus = 1 /\ over
    /\ pc = "virt_install" => ~over
    /\ \A i \in 1..Len(vm.virt_install) :
         /\ vm.virt_install[i].ram <= vm.available[1]
         /\ vm.virt_install[i].vcpus <= vm.available[2]
         /\ vm.virt_install[i].disk_size <= vm.available[3]

\* C4 witness: the validator has ended a run whose disk allocation alone is too large
C4_Witness ==
    /\ failedAt = "validate_allocation"
    /\ pc = "exited"
    /\ vm.allocated[3] > vm.available[3]
    /\ vm.allocated[1] <= vm.available[1]
    /\ vm.allocated[2] <= vm.available[2]

\* C5: whenever an external command the flow depends on exits non-zero, the run
\* ends with status 1 and nothing is executed after that command.
C5_CommandFailureIsFatal ==
    \A i \in 1..Len(log) :
        (log[i].op \in DependedCommands /\ ~log[i].ok) =>
            /\ Terminating
            /\ \A j \in (i + 1)..Len(log) : log[j].op \in Notes

\* C6: exit status 0 only after every stage completed and the VM installer was
\* invoked and succeeded; a run in which fail() was called, or the failure of a
\* command run through run_subprocess propagated, ends with status 1; and once
\* fail() was called no further step of the main sequence executes (only the
\* unmounts of a finally block may still run).
C6_ExitStatus ==
    /\ [](/\ exitStatus = 0 =>
               /\ done = AllStages
               /\ failedAt = ""
               /\ Len(vm.virt_install) = 1
               /\ log # <<>> /\ log[Len(log)] = Entry("virt-install", "MyVM", TRUE)
          /\ failedAt # "" => Terminating
          /\ (pc = "exited" /\ failedAt # "") => exitStatus = 1
          /\ \A i \in 1..Len(log) :
               (log[i].op \in DependedCommands \ {"cp", "wimmountrw"} /\ ~log[i].ok)
                   => Terminating)
    /\ [][failedAt # "" =>
            /\ pc' \in {"exited", "finally"}
            /\ done' = done /\ fs' = fs /\ vm' = vm
            /\ \A i \in 1..Len(log') :
                 Appended(i) => log'[i].op \in Notes \cup {"umount"}]_vars

\* C6 witness: a run that built the composite ISO ends with status 0
C6_Witness ==
    /\ exitStatus = 0
    /\ iso.mastered
    /\ iso.final_win_iso_path = CustomIso

\* a step of the k-th modify_config call on f whose elevated read succeeded
ModifyStep(f, k) ==
    /\ pc = HostPc(f, IF k = 1 THEN "modify_1" ELSE "modify_2")
    /\ pc' # pc
    /\ \E i \in 1..Len(log') : Appended(i) /\ log'[i] = Entry("sudo cat", f, TRUE)

\* the step left the file alone, wrote nothing, logged the skip and went on
Skipped(f) ==
    /\ fs' = fs
    /\ \A i \in 1..Len(log') : Appended(i) => log'[i].op # "sudo tee"
    /\ \E i \in 1..Len(log') :
         Appended(i) /\ log'[i] = Entry("warn: search string not found", f, TRUE)
    /\ pc' # "exited"

C8_BackupAtMostOnce ==
    [][\A f \in ConfigPaths :
         /\ (\E i \in 1..Len(log') : Appended(i) /\ log'[i].op = "cp" /\ log'[i].arg = f)
                => ~fs[backup_path(f)].exists
         /\ fs[backup_path(f)].exists => fs'[backup_path(f)] = fs[backup_path(f)]]_vars

\* C8 witness: a second run has passed the backup step of libvirtd.conf, whose
\* backup still holds a text older than the file's current one
C8_Witness ==
    /\ invocation = 2
    /\ pc = "libvirt_modify_1"
    /\ fs[backup_path(LIBVIRT_CONFIG_PATH)].exists
    /\ fs[backup_path(LIBVIRT_CONFIG_PATH)].data # fs[LIBVIRT_CONFIG_PATH].data

\* how often the line occurs in the text
Occurrences(text, line) == Cardinality({i \in 1..Len(text) : text[i] = line})

\* C9: the libvirtd.conf patch step appends each of the two logging directives
\* only if it is not already present: a directive present before the step is not
\* appended again, and after the step both are present.
C9_AppendOnlyMissing ==
    [][(pc = "libvirt_additional" /\ pc' = "systemctl_enable") =>
          \A i \in 1..Len(additional_settings) :
             LET line == additional_settings[i]
                 before == fs[LIBVIRT_CONFIG_PATH].data
                 after == fs'[LIBVIRT_CONFIG_PATH].data
             IN /\ Contains(after, <<line>>)
                /\ Contains(before, <<line>>) =>
                      Occurrences(after, line) = Occurrences(before, line)]_vars

\* C10: in the host-configuration stage the two root-owned config files are read
\* and written only through elevated commands, never through open().
C10_ElevatedAccessOnly ==
    \A i \in 1..Len(log) :
        log[i].arg \in ConfigPaths => log[i].op # "open"

\* the step ends the run with status 1 and leaves the file system alone
FatalStep ==
    /\ pc' = "exited"
    /\ exitStatus' = 1
    /\ fs' = fs

\* the step issued an elevated write (sudo tee, sudo tee -a) to f, which failed
WriteFailed(f) ==
    \E i \in 1..Len(log') :
        /\ Appended(i)
        /\ log'[i].op \in {"sudo tee", "sudo tee -a"}
        /\ log'[i].arg = f
        /\ ~log'[i].ok

\* C11: in the host-configuration stage a missing config file and a failed
\* elevated write end the run with status 1, and nothing of that run is issued
\* afterwards (the only step from an ended process is the start of a new one);
\* a missing search string does not end the run: the edit is skipped, with a
\* warning and no write, and the run goes on to the step that follows.
C11_FatalOrSkipped ==
    [][/\ \A f \in ConfigPaths :
            /\ (pc = HostPc(f, "isfile") /\ ~fs[f].exists) => FatalStep /\ log' = log
            /\ WriteFailed(f) => FatalStep
            /\ \A k \in {1, 2} :
                  (ModifyStep(f, k) /\ ~Contains(fs[f].data, ConfigEdits(f, user)[k].search))
                      => /\ Skipped(f)
                         /\ exitStatus' = -1
                         /\ pc' = HostPc(f, IF k = 1 THEN "modify_2" ELSE "after")
       /\ pc = "exited" =>
            /\ pc' = "add_user_to_groups"
            /\ exitStatus' = -1
            /\ log' = <<>>
            /\ fs' = fs /\ vm' = vm]_vars

\* C11 witness: in one run the first edit of qemu.conf was skipped for want of
\* its search string, and the write of the second edit failed and ended the run
C11_Witness ==
    /\ pc = "exited"
    /\ exitStatus = 1
    /\ failedAt = "qemu_modify_2"
    /\ Len(log) >= 3
    /\ log[Len(log)] = Entry("sudo tee", QEMU_CONFIG_PATH, FALSE)
    /\ log[Len(log) - 2] = Entry("warn: search string not found", QEMU_CONFIG_PATH, TRUE)

\* the entries the step appended to the log
NewEntries == {log'[i] : i \in (Len(log) + 1)..Len(log')}

\* the path the step hands to unmount, "" when the step is no call of unmount
UnmountArg ==
    CASE pc = "unmount_virtio" -> virtio_mount_dir
      [] pc = "unmount_windows" -> windows_mount_dir
      [] pc = "finally" /\ iso.fin <= Len(iso.mounted_isos) -> iso.mounted_isos[iso.fin]
      [] pc = "cleanup_temp_dirs" /\ mounts \cap {virtio_mount_dir, windows_mount_dir} # {} ->
            CHOOSE m \in mounts \cap {virtio_mount_dir, windows_mount_dir} : TRUE
      [] OTHER -> ""

\* C12: a call of unmount on a path that is not mounted logs a warning and
\* returns: umount is not invoked, the run is not ended and the mount table is
\* unchanged; umount is invoked only on a path mounted at the time of the call.
C12_UnmountNotMounted ==
    [][/\ (UnmountArg # "" /\ UnmountArg \notin mounts) =>
            /\ NewEntries = {Entry("warn: not mounted", UnmountArg, TRUE)}
            /\ mounts' = mounts
            /\ pc' # "exited"
            /\ UNCHANGED <<exitStatus, failedAt>>
       /\ \A e \in NewEntries :
            /\ e.op = "umount" => e.arg \in mounts
            /\ e.op = "warn: not mounted" =>
                  /\ e.arg \notin mounts
                  /\ mounts' = mounts
                  /\ UNCHANGED <<exitStatus, failedAt>>]_vars

\* C12 witness: the finally block of a build that succeeded has called unmount
\* on both ISO mount points, neither of which was mounted any more
C12_Witness ==
    /\ pc = "finally"
    /\ ~iso.raised
    /\ iso.fin = 3
    /\ exitStatus = -1
    /\ mounts = {}
    /\ Len(log) >= 2
    /\ log[Len(log) - 1] = Entry("warn: not mounted", virtio_mount_dir, TRUE)
    /\ log[Len(log)] = Entry("warn: not mounted", windows_mount_dir, TRUE)

\* C13: for every available (RAM, CPUs, disk) triple of non-negative integers
\* auto_allocation returns, whatever the rest of the state, the floor of the half
\* of each quantity: the one integer a with 2a <= available <= 2a + 1.
C13_AutoAllocationHalves ==
    [][pc = "auto_allocation" =>
          /\ \A d \in 1..3 :
                /\ vm.available[d] >= 0
                /\ 2 * vm'.allocated[d] <= vm.available[d]
                /\ vm.available[d] <= 2 * vm'.allocated[d] + 1
          /\ vm'.available = vm.available
          /\ pc' = "validate_allocation"
          /\ exitStatus' = -1]_vars

\* C13 witness: automatic allocation has halved an odd, an even and a zero quantity
C13_Witness ==
    /\ pc = "validate_allocation"
    /\ lower(vm.auto_allocate) = "y"
    /\ vm.available = <<1, 2, 0>>
    /\ vm.allocated = <<0, 1, 0>>

\* the positions of the download and of the composite-ISO build
BuildPcs ==
    {"cleanup_temp_dirs", "download_mido", "run_mido", "get_redirected_url",
     "download_virtio", "prepare_directories", "mount_virtio", "copy_virtio",
     "unmount_virtio", "mount_windows", "copy_windows", "unmount_windows",
     "mount_wim", "copy_wim", "unmount_wim", "generate_custom_iso", "finally"}

\* the commands of the download and of the composite-ISO build
BuildCommands ==
    {"urlretrieve", "Mido.sh", "curl", "mount", "umount", "wimmountrw", "wimunmount",
     "mkisofs"}

\* C14: in a run with menu choice "1" the image stage mounts, downloads and
\* builds nothing, and the install medium given to the VM installer is exactly
\* the path the input stage returned; when the answer to the allocation prompt
\* is "y" and 8000 MB / 4 CPUs / 100 GB are available, the installer is invoked
\* with ram 4000, vcpus 2 and disk size 50.
C14_OwnIsoRun ==
    input.choice = "1" =>
        /\ pc \notin BuildPcs
        /\ mounts = {}
        /\ iso.mounted_isos = <<>> /\ iso.virtio_iso = "" /\ ~iso.mastered
        /\ \A i \in 1..Len(log) : log[i].op \notin BuildCommands
        /\ "image" \in done => iso.final_win_iso_path = input.iso_ref
        /\ \A i \in 1..Len(vm.virt_install) :
              /\ vm.virt_install[i].cdrom = input.iso_ref
              /\ (vm.auto_allocate = "y" /\ vm.available = <<8000, 4, 100>>) =>
                    /\ vm.virt_install[i].ram = 4000
                    /\ vm.virt_install[i].vcpus = 2
                    /\ vm.virt_install[i].disk_size = 50

\* C14 witness: a run with choice "1", a path typed with "~", the answer "y" and
\* 8000 / 4 / 100 available has invoked the installer and ended with status 0
C14_Witness ==
    /\ exitStatus = 0
    /\ input.choice = "1"
    /\ input.iso_ref = "/home/alice/win.iso"
    /\ vm.auto_allocate = "y"
    /\ vm.available = <<8000, 4, 100>>
    /\ Len(vm.virt_install) = 1
    /\ vm.virt_install[1].cdrom = "/home/alice/win.iso"
    /\ vm.virt_install[1].ram = 4000

\* the place of a log entry in the order of setup_libvirt, 0 for an entry that
\* is none of its commands; the patch of a config file is its reads and writes
HostRank(e) ==
    CASE e.op = "usermod" -> 1
      [] e.op \in {"sudo cat", "sudo tee", "sudo tee -a", "open"}
           /\ e.arg = LIBVIRT_CONFIG_PATH -> 2
      [] e.op = "systemctl" /\ e.arg = "enable" -> 3
      [] e.op = "systemctl" /\ e.arg = "start" -> 4
      [] e.op \in {"sudo cat", "sudo tee", "sudo tee -a", "open"}
           /\ e.arg = QEMU_CONFIG_PATH -> 5
      [] e.op = "systemctl" /\ e.arg = "restart" -> 6
      [] e.op = "virsh net-autostart" -> 7
      [] OTHER -> 0

\* the positions of create_vm
VmPcs ==
    {"get_uefi_path", "uefi_isfile", "get_cpu_topology", "resource_assessment",
     "auto_or_manual_config", "auto_allocation", "manual_allocation",
     "validate_allocation", "virt_install"}

\* C15: the host-configuration commands are issued in the order usermod, patch
\* of libvirtd.conf, systemctl enable, systemctl start, patch of qemu.conf,
\* systemctl restart, virsh net-autostart, each only after the one before it was
\* issued and every earlier one succeeded; the restart comes after the patch of
\* qemu.conf, and the VM installer is invoked only after net-autostart succeeded.
C15_HostOrder ==
    /\ [](/\ \A j \in 1..Len(log) :
               LET r == HostRank(log[j]) IN
               r > 0 =>
                 /\ \A i \in 1..(j - 1) :
                       HostRank(log[i]) > 0 => HostRank(log[i]) <= r /\ log[i].ok
                 /\ r > 1 => \E i \in 1..(j - 1) : HostRank(log[i]) = r - 1 /\ log[i].ok
          /\ pc = "net_autostart" =>
               log # <<>> /\ log[Len(log)] = Entry("systemctl", "restart", TRUE)
          /\ (pc \in VmPcs \/ vm.virt_install # <<>>) => "host" \in done)
    /\ [][/\ ("host" \in done' /\ "host" \notin done) => pc = "net_autostart"
          /\ (\E e \in NewEntries : e.op = "virt-install") => "host" \in done]_vars

\* C15 witness: all four edits were applied and the daemon was restarted; the
\* net-autostart command is next
C15_Witness ==
    /\ pc = "net_autostart"
    /\ Cardinality(patched) = 4
    /\ Len(log) >= 7
    /\ log[1] = Entry("usermod", user, TRUE)
    /\ log[Len(log)] = Entry("systemctl", "restart", TRUE)

\* C16: a menu entry other than "1", "2", "3" is answered by a new prompt and
\* has no other effect, however many are typed, so the choice returned is one of
\* "1", "2", "3"; a path that is no existing file ends the run with status 1 at
\* once, with no new prompt, before any package installation, download, mount,
\* config edit or VM creation.
C16_InputStage ==
    /\ [](/\ pc = "prompt_for_iso_choice" => input.choice = "" /\ done = {} /\ log = <<>>
          /\ "input" \in done => input.choice \in {"1", "2", "3"}
          /\ pc = "prompt_iso_path" => input.choice \in {"1", "2"}
          /\ failedAt = "prompt_iso_path" =>
               /\ pc = "exited" /\ exitStatus = 1
               /\ input.choice \in {"1", "2"}
               /\ done = {} /\ log = <<>>
               /\ mounts = {} /\ iso = IsoInit /\ vm = VmInit /\ patched = {}
               /\ \A f \in ConfigPaths : fs[f].exists => fs[f].data = Stock(f))
    /\ [][ /\ pc = "prompt_for_iso_choice" =>
                \/ /\ pc' = pc
                   /\ input' = [input EXCEPT !.invalid = @ + 1]
                   /\ UNCHANGED <<exitStatus, failedAt, log, done, fs, user, mounts, iso,
                                  vm, invocation, patched>>
                \/ /\ pc' \in {"prompt_iso_path", "install_packages"}
                   /\ input'.choice \in {"1", "2", "3"}
                   /\ exitStatus' = -1
           /\ pc = "prompt_iso_path" =>
                /\ pc' \in {"exited", "install_packages"}
                /\ pc' = "exited" =>
                      /\ exitStatus' = 1
                      /\ UNCHANGED <<log, done, fs, mounts, iso, vm, patched>>
           /\ pc # "exited"]_vars

\* C16 witness: after MaxInvalid invalid menu entries and the choice "2", a path
\* that is no file has ended the run
C16_Witness ==
    /\ pc = "exited"
    /\ exitStatus = 1
    /\ failedAt = "prompt_iso_path"
    /\ input.invalid = MaxInvalid
    /\ input.choice = "2"

\* C17: an OS-release identifier outside ubuntu, pop, debian, linuxmint, and a
\* supported identifier whose firmware file is absent, both end the run with
\* status 1 without any invocation of the VM installer; the installer is invoked
\* only with the firmware path that the isfile test found to exist.
C17_FirmwareGate ==
    /\ (vm.DISTRO_NAME # "" /\ vm.DISTRO_NAME \notin SupportedDistros) =>
          /\ pc = "exited" /\ exitStatus = 1
          /\ failedAt = "get_uefi_path"
          /\ vm.virt_install = <<>>
    /\ vm.firmware = "absent" =>
          /\ pc = "exited" /\ exitStatus = 1
          /\ failedAt = "uefi_isfile"
          /\ vm.virt_install = <<>>
    /\ (pc \in VmPcs \ {"get_uefi_path", "uefi_isfile"}) =>
          vm.firmware = "found" /\ vm.DISTRO_NAME \in SupportedDistros
    /\ \A i \in 1..Len(vm.virt_install) :
          /\ vm.firmware = "found"
          /\ vm.DISTRO_NAME \in SupportedDistros
          /\ vm.virt_install[i].uefi = vm.UEFI_PATH
          /\ vm.virt_install[i].uefi = OVMF_CODE

\* C17 witness: on a supported distribution the firmware file was absent and the
\* run has ended
C17_Witness ==
    /\ pc = "exited"
    /\ exitStatus = 1
    /\ failedAt = "uefi_isfile"
    /\ vm.DISTRO_NAME = "pop"
    /\ vm.firmware = "absent"

\* C18: in every invocation of the VM installer with vcpus >= 0, threads >= 1
\* and sockets >= 1, the topology passed describes no more logical CPUs than
\* vcpus: sockets * cores * threads <= vcpus, cores being the quotient of vcpus
\* by threads and then by sockets, i.e. the largest count for which this holds.
C18_TopologyWithinVcpus ==
    \A i \in 1..Len(vm.virt_install) :
        LET c == vm.virt_install[i] IN
        (c.vcpus >= 0 /\ c.threads >= 1 /\ c.sockets >= 1) =>
            /\ c.sockets * c.cores * c.threads <= c.vcpus
            /\ c.vcpus < c.sockets * (c.cores + 1) * c.threads
            /\ c.cores >= 0

\* C18 witness: the installer was invoked with 3 vcpus on a host with two
\* threads per core: one core, two logical CPUs described
C18_Witness ==
    /\ Len(vm.virt_install) = 1
    /\ vm.virt_install[1].vcpus = 3
    /\ vm.virt_install[1].threads = 2
    /\ vm.virt_install[1].sockets = 1
    /\ vm.virt_install[1].cores = 1

====
